---- MODULE Spec2Model ----
(***************************************************************************)
(* Model of recipes/AMI/Diarization/sd.py: the conversion of cluster       *)
(* labels into speaker turns (do_spec_clustering) and the per-split driver *)
(* (diarize_dataset).                                                      *)
(*                                                                         *)
(* Strings that the code splits on "_" are sequences of "_"-free tokens,   *)
(* so that joining is concatenation and split/rsplit are what they are in  *)
(* Python.  Times are integers counted in half seconds: a segment boundary *)
(* "t.0" is the even number 2*t, and the midpoint of two boundaries is an  *)
(* exact integer.                                                          *)
(***************************************************************************)
EXTENDS Integers, Sequences, FiniteSets, TLC

\* ------------------------------------------------------------------ bounds
MaxSegs == 3
MaxTime == 3
MaxNumSpkrs == 3
MaxCalls == 3

VARIABLES
    segset,     \* diary_obj_eval.segset: the segment identifiers, in file order
    labels,     \* clust_obj.labels_: one cluster label per segment
    rec_arg,    \* the rec_id argument of do_spec_clustering
    lol,        \* the local list of [rec_id, start, end, spkr_id] entries
    prev,       \* history: lol as it was before the latest pass
    rttm,       \* the lines written to out_rttm_file
    pc,         \* position inside do_spec_clustering
    k,          \* the k argument of do_spec_clustering
    full_csv,   \* diarize_dataset: the rows of the split's csv
    n_lambdas,  \* diarize_dataset: the tuned number of speakers
    all_rec_ids, \* diarize_dataset: the sorted recording ids
    idx,        \* diarize_dataset: position of the loop over all_rec_ids
    dpc,        \* position inside diarize_dataset
    files,      \* out_rttm_dir: the names of the files that exist
    content,    \* out_rttm_dir: the lines of each file
    rng,        \* the process-wide numpy random state
    calls,      \* number of diarize_dataset calls made so far
    done,       \* history: recordings written by the current call
    failed,     \* history: recordings whose processing raised in this call
    seen        \* history: per (recording, k), the outputs written so far

callvars == <<segset, labels, rec_arg, lol, prev, rttm, pc, k>>
datavars == <<full_csv, n_lambdas, all_rec_ids, idx, dpc, files, content,
              rng, calls, done, failed, seen>>
vars == <<callvars, datavars>>

\* --------------------------------------------------------------- strings
\* The decimal tokens of the segment boundaries "0.0", "1.0", ...
TimeToks == <<"0.0", "1.0", "2.0", "3.0", "4.0", "5.0", "6.0">>

\* float(token), in half seconds
float(tok) == 2 * ((CHOOSE i \in 1..Len(TimeToks) : TimeToks[i] = tok) - 1)

\* str(label)
LabelToks == <<"0", "1", "2", "3", "4", "5">>
str(l) == LabelToks[l + 1]

\* sub_seg.rsplit("_", 2): the last two tokens split off, the rest left joined
rsplit2(id) ==
    <<SubSeq(id, 1, Len(id) - 2), id[Len(id) - 1], id[Len(id)]>>

\* row[0].rstrip().split("_")[0]: the text before the first "_"
split0(id) == <<id[1]>>

Min(a, b) == IF a <= b THEN a ELSE b
Max(a, b) == IF a >= b THEN a ELSE b

\* ------------------------------------------- labels to entries (231-246)
\* One iteration per segment; rec_id is overwritten by each iteration and
\* the next iteration builds its spkr_id from the overwritten value.
RECURSIVE ConvertLoop(_, _, _, _, _)
ConvertLoop(ids, labs, i, rec_id, acc) ==
    IF i > Len(labs) THEN acc
    ELSE LET spkr_id  == rec_id \o <<str(labs[i])>>
             splitted == rsplit2(ids[i])
             new_rec  == splitted[1]
             a == [rec |-> new_rec, start |-> float(splitted[2]),
                   end |-> float(splitted[3]), spk |-> spkr_id]
         IN ConvertLoop(ids, labs, i + 1, new_rec, Append(acc, a))

ConvertLabels(ids, labs, rec_id) == ConvertLoop(ids, labs, 1, rec_id, <<>>)

\* ------------------------------------------------------- sorting (249)
\* list.sort(key=start) is stable: equal starts keep their order.
RECURSIVE InsertByStart(_, _)
InsertByStart(s, e) ==
    IF s = <<>> THEN <<e>>
    ELSE IF s[Len(s)].start <= e.start THEN Append(s, e)
    ELSE Append(InsertByStart(SubSeq(s, 1, Len(s) - 1), e), s[Len(s)])

RECURSIVE SortLoop(_, _)
SortLoop(l, acc) ==
    IF l = <<>> THEN acc ELSE SortLoop(Tail(l), InsertByStart(acc, Head(l)))

\* The sort left out.
SortUnsorted(l) == l

SortByStart(l) == SortLoop(l, <<>>)

\* ------------------------------------------------ Pass 1: merge (253)
\* diar.merge_ssegs_same_speaker, as the design describes it: scanning the
\* sorted entries, an entry of the running turn's speaker that touches or
\* overlaps it (start <= the turn's end) is merged into it, the turn spanning
\* [min(start), max(end)]; any other entry closes the turn and opens one.
RECURSIVE MergeFrom(_, _, _)
MergeFrom(cur, rest, acc) ==
    IF rest = <<>> THEN Append(acc, cur)
    ELSE LET nx == Head(rest) IN
         IF nx.spk = cur.spk /\ nx.start <= cur.end
         THEN MergeFrom([cur EXCEPT !.start = Min(cur.start, nx.start),
                                    !.end = Max(cur.end, nx.end)],
                        Tail(rest), acc)
         ELSE MergeFrom(nx, Tail(rest), Append(acc, cur))

merge_ssegs_same_speaker(l) ==
    IF l = <<>> THEN <<>> ELSE MergeFrom(Head(l), Tail(l), <<>>)

\* ------------------------------------------------ Pass 2: split (257)
\* diar.distribute_overlap, as the design describes it: for each pair of
\* neighbouring turns of different speakers with s2 < e1, both boundaries
\* move to m = (s2 + e1) / 2; other pairs are left as they are.
RECURSIVE SplitFrom(_, _)
SplitFrom(l, i) ==
    IF i >= Len(l) THEN l
    ELSE IF l[i].spk # l[i + 1].spk /\ l[i + 1].start < l[i].end
         THEN LET m == (l[i + 1].start + l[i].end) \div 2
              IN SplitFrom([l EXCEPT ![i].end = m, ![i + 1].start = m], i + 1)
         ELSE SplitFrom(l, i + 1)

distribute_overlap(l) == SplitFrom(l, 1)

\* --------------------------------------------------- RTTM lines (260)
\* diar.write_rttm: one SPEAKER line per turn, duration = end - start; the
\* file holds these lines and no others.  Half seconds print exactly in %.3f.
write_rttm(l) ==
    [i \in 1..Len(l) |->
        [type |-> "SPEAKER", rec |-> l[i].rec, start |-> l[i].start,
         dur |-> l[i].end - l[i].start, spk |-> l[i].spk]]

\* ---------------------------------------------- random state (38, 203)
\* numpy's RandomState, reduced to a 16-state generator of full period.
NextRand(s) == (5 * s + 3) % 16
\* np.random.seed(1234) of line 38, and params["seed"] of line 223 (the
\* recipe's hyperparameter file sets it; no line of the clustering reads it).
NpSeed == 1234
ParamsSeed == 1234
SeedState(seed) == seed % 16
None == -1

\* diar.check_random_state(seed): None gives the process-wide generator
\* that line 38 seeded once, an integer a fresh generator of that seed.
check_random_state(seed, global) ==
    IF seed = None THEN [shared |-> TRUE, state |-> global]
    ELSE [shared |-> FALSE, state |-> SeedState(seed)]

\* ------------------------------------------------ k_means (210-212)
\* sklearn's k_means: n_init runs, each from k distinct points drawn with
\* the random state as initial centres; every point takes the index of the
\* nearest centre; the run of least inertia wins, the first one on a tie.
\* Lloyd's refinement, which follows each initialisation and is a function of
\* it, is left out.  Points are one integer each.
RemoveAt(q, j) == SubSeq(q, 1, j - 1) \o SubSeq(q, j + 1, Len(q))

RECURSIVE DrawCentres(_, _, _, _)
DrawCentres(remaining, n, s, acc) ==
    IF n = 0 THEN [centres |-> acc, state |-> s]
    ELSE LET s2 == NextRand(s)
             j  == ((s2 \div 4) % Len(remaining)) + 1
         IN DrawCentres(RemoveAt(remaining, j), n - 1, s2,
                        Append(acc, remaining[j]))

Dist(a, b) == IF a >= b THEN a - b ELSE b - a

Nearest(pnt, centres) ==
    CHOOSE j \in 1..Len(centres) :
        /\ \A h \in 1..Len(centres) : Dist(pnt, centres[j]) <= Dist(pnt, centres[h])
        /\ \A h \in 1..(j - 1) : Dist(pnt, centres[h]) > Dist(pnt, centres[j])

AssignLabels(points, centres) ==
    [i \in 1..Len(points) |-> Nearest(points[i], centres) - 1]

RECURSIVE Inertia(_, _, _)
Inertia(points, centres, i) ==
    IF i > Len(points) THEN 0
    ELSE LET d == Dist(points[i], centres[Nearest(points[i], centres)])
         IN d * d + Inertia(points, centres, i + 1)

RECURSIVE KMeansRuns(_, _, _, _, _)
KMeansRuns(points, n_clusters, s, runs, best) ==
    IF runs = 0 THEN [labels |-> best.labels, state |-> s]
    ELSE LET d   == DrawCentres(points, n_clusters, s, <<>>)
             cur == [labels |-> AssignLabels(points, d.centres),
                     inertia |-> Inertia(points, d.centres, 1), set |-> TRUE]
             nb  == IF ~best.set \/ cur.inertia < best.inertia THEN cur ELSE best
         IN KMeansRuns(points, n_clusters, d.state, runs - 1, nb)

k_means(points, n_clusters, random_state, n_init) ==
    IF n_clusters > Len(points)
    THEN [ok |-> FALSE, labels |-> <<>>, state |-> random_state.state]
    ELSE LET r == KMeansRuns(points, n_clusters, random_state.state, n_init,
                             [labels |-> <<>>, inertia |-> 0, set |-> FALSE])
         IN [ok |-> TRUE, labels |-> r.labels, state |-> r.state]

\* ------------------------------------- spectral_embedding_sb (147-189)
\* eigsh takes k = n_components eigenvectors of the N x N Laplacian: ARPACK
\* needs k < N and raises otherwise.  The numbers are not modelled: the rows
\* of the embedding are the recording's points, a function of its embeddings
\* (the sign flip of line 185 makes them so).
eigsh(points, n_components) ==
    IF n_components < Len(points)
    THEN [ok |-> TRUE, maps |-> points]
    ELSE [ok |-> FALSE, maps |-> <<>>]

spectral_embedding_sb(adjacency, n_components, drop_first) ==
    eigsh(adjacency, IF drop_first THEN n_components + 1 ELSE n_components)

\* ------------------------------------ spectral_clustering_sb (192-214)
NInit == 10

spectral_clustering_sb(affinity, n_clusters, random_state, global) ==
    LET rs   == check_random_state(random_state, global)
        emb  == spectral_embedding_sb(affinity, n_clusters, FALSE)
        km   == k_means(emb.maps, n_clusters, rs, NInit)
    IN IF ~emb.ok \/ ~km.ok THEN [ok |-> FALSE, labels |-> <<>>, rng |-> global]
       ELSE [ok |-> TRUE, labels |-> km.labels,
             rng |-> IF rs.shared THEN km.state ELSE global]

\* --------------------------------------- Spec_Cluster.perform_sc (263-287)
\* self holds n_clusters and the random_state given at construction; the
\* call of spectral_clustering_sb passes no random_state, so it is None.
\* kneighbors_graph's numbers are not modelled (X stands for the affinity);
\* every recording here has more segments than n_neighbors, so it succeeds.
perform_sc(self, X, global) ==
    spectral_clustering_sb(X, self.n_clusters, None, global)

\* ------------------------------------------ do_spec_clustering (217-260)
Spec_Cluster(n_clusters, random_state) ==
    [n_clusters |-> n_clusters, random_state |-> random_state]

do_spec_clustering(stat1, ids, rec_id, kk, global) ==
    LET clust_obj == Spec_Cluster(kk, ParamsSeed)
        sc        == perform_sc(clust_obj, stat1, global)
        entries   == ConvertLabels(ids, sc.labels, rec_id)
        merged    == merge_ssegs_same_speaker(SortByStart(entries))
        turns     == distribute_overlap(merged)
    IN IF ~sc.ok
       THEN [ok |-> FALSE, labels |-> <<>>, merged |-> <<>>, turns |-> <<>>,
             lines |-> <<>>, rng |-> sc.rng]
       ELSE [ok |-> TRUE, labels |-> sc.labels, merged |-> merged,
             turns |-> turns, lines |-> write_rttm(turns), rng |-> sc.rng]

\* ------------------------------------------------------------- inputs
Seconds == 0..MaxTime
\* Two labels give every pattern of equal and different neighbours.
SpkLabels == {0, 1}
RecOne == <<"ES2011a">>
RecTwo == <<"IS", "1009b">>

SegId(rec, s, e) == rec \o <<TimeToks[s + 1], TimeToks[e + 1]>>

ValidSegIds ==
    {SegId(RecOne, p[1], p[2]) : p \in {q \in Seconds \X Seconds : q[1] < q[2]}}
AnySegIds ==
    {SegId(r, p[1], p[2]) : r \in {RecOne, RecTwo}, p \in Seconds \X Seconds}

SeqsUpTo(S, n) == UNION {[1..m -> S] : m \in 1..n}

\* ------------------------------------------------- the split's data
\* Two recordings of a split: their csv rows (segment identifiers) and, per
\* recording, the points that stand for its embeddings.
RecOrder == <<"ES2011a", "IS1009b">>
RecNames == {RecOrder[i] : i \in 1..Len(RecOrder)}
Header == <<"ID">>
RowsOf(r) ==
    IF r = "ES2011a"
    THEN <<SegId(<<r>>, 0, 1), SegId(<<r>>, 1, 2)>>
    ELSE <<SegId(<<r>>, 0, 2), SegId(<<r>>, 1, 3), SegId(<<r>>, 2, 3)>>
PointsOf(r) == IF r = "ES2011a" THEN <<0, 4>> ELSE <<0, 1, 5>>
CsvChoices ==
    {<<Header>> \o RowsOf("IS1009b"),
     <<Header>> \o RowsOf("IS1009b") \o RowsOf("ES2011a")}

ConcatFile == "sys_output"
FileNames == RecNames \cup {ConcatFile}

DataInit ==
    /\ full_csv = <<>>
    /\ n_lambdas = 0
    /\ all_rec_ids = <<>>
    /\ idx = 0
    /\ dpc = "idle"
    /\ files = {}
    /\ content = [f \in FileNames |-> <<>>]
    /\ rng = SeedState(NpSeed)
    /\ calls = 0
    /\ done = {}
    /\ failed = {}
    /\ seen = [key \in RecNames \X (1..MaxNumSpkrs) |-> {}]

\* A call do_spec_clustering(obj, file, rec_id, k) after clustering: the
\* segment identifiers, their labels, and the rec_id that line 310 cut from
\* one of the identifiers.
CallInit(ids) ==
    /\ segset \in SeqsUpTo(ids, MaxSegs)
    /\ labels \in [1..Len(segset) -> SpkLabels]
    /\ rec_arg \in {split0(segset[i]) : i \in 1..Len(segset)}
    /\ lol = <<>>
    /\ prev = <<>>
    /\ rttm = <<>>
    /\ pc = "convert"
    /\ k = Cardinality(SpkLabels)
    /\ DataInit

InitValid == CallInit(ValidSegIds)
InitAny == CallInit(AnySegIds)

\* ------------------------------------------- do_spec_clustering, 231-260
Convert ==
    /\ pc = "convert"
    /\ lol' = ConvertLabels(segset, labels, rec_arg)
    /\ prev' = lol
    /\ pc' = "sort"
    /\ UNCHANGED <<segset, labels, rec_arg, rttm, k, datavars>>

Sort ==
    /\ pc = "sort"
    /\ lol' = SortByStart(lol)
    /\ prev' = lol
    /\ pc' = "merge"
    /\ UNCHANGED <<segset, labels, rec_arg, rttm, k, datavars>>

Merge ==
    /\ pc = "merge"
    /\ lol' = merge_ssegs_same_speaker(lol)
    /\ prev' = lol
    /\ pc' = "split"
    /\ UNCHANGED <<segset, labels, rec_arg, rttm, k, datavars>>

\* Step 2 called and its result dropped.
SplitSkipped ==
    /\ pc = "split"
    /\ lol' = lol
    /\ prev' = lol
    /\ pc' = "write"
    /\ UNCHANGED <<segset, labels, rec_arg, rttm, k, datavars>>

Split ==
    /\ pc = "split"
    /\ lol' = distribute_overlap(lol)
    /\ prev' = lol
    /\ pc' = "write"
    /\ UNCHANGED <<segset, labels, rec_arg, rttm, k, datavars>>

Write ==
    /\ pc = "write"
    /\ rttm' = write_rttm(lol)
    /\ pc' = "done"
    /\ UNCHANGED <<segset, labels, rec_arg, lol, prev, k, datavars>>

NextCall == Convert \/ Sort \/ Merge \/ Split \/ Write

\* ------------------------------------------------ diarize_dataset
\* 309-312: the recording ids of the csv, header row left out, as a sorted
\* list without repetitions.
RecIdsOf(csv) ==
    LET A == [i \in 1..Len(csv) |-> split0(csv[i])[1]]
        S == {A[i] : i \in 2..Len(A)}
    IN SelectSeq(RecOrder, LAMBDA r : r \in S)

\* diar.prepare_subset_csv: the rows of one recording
prepare_subset_csv(csv, rec_id) ==
    SelectSeq(Tail(csv), LAMBDA row : split0(row) = <<rec_id>>)

\* 290-327: entry of diarize_dataset(full_csv, split_type, n_lambdas)
Call ==
    /\ dpc \in {"idle", "returned"}
    /\ calls < MaxCalls
    /\ \E csv \in CsvChoices, nl \in 1..MaxNumSpkrs :
          /\ full_csv' = csv
          /\ n_lambdas' = nl
          /\ all_rec_ids' = RecIdsOf(csv)
    /\ idx' = 1
    /\ dpc' = "loop"
    /\ calls' = calls + 1
    /\ done' = {}
    /\ failed' = {}
    /\ UNCHANGED <<callvars, files, content, rng, seen>>

\* 329-384: one iteration of the loop over all_rec_ids, with the number of
\* speakers taken from n_lambdas (oracle_n_spkrs off).  The embeddings of a
\* recording are the same at every call (computed once, then read from the
\* stat file).  An exception of do_spec_clustering is caught nowhere: it
\* leaves the loop and the function.
Clustered(rec_id) ==
    do_spec_clustering(PointsOf(rec_id), prepare_subset_csv(full_csv, rec_id),
                       <<rec_id>>, n_lambdas, rng)

Diarize ==
    /\ dpc = "loop"
    /\ idx <= Len(all_rec_ids)
    /\ LET rec_id == all_rec_ids[idx]
           r      == Clustered(rec_id)
       IN /\ segset' = prepare_subset_csv(full_csv, rec_id)
          /\ rec_arg' = <<rec_id>>
          /\ k' = n_lambdas
          /\ \/ /\ r.ok
                /\ labels' = r.labels
                /\ prev' = r.merged
                /\ lol' = r.turns
                /\ rttm' = r.lines
                /\ pc' = "done"
                /\ files' = files \cup {rec_id}
                /\ content' = [content EXCEPT ![rec_id] = r.lines]
                /\ rng' = r.rng
                /\ idx' = idx + 1
                /\ done' = done \cup {rec_id}
                /\ seen' = [seen EXCEPT ![<<rec_id, n_lambdas>>] = @ \cup {r.lines}]
                /\ UNCHANGED <<dpc, failed>>
             \/ /\ ~r.ok
                /\ labels' = <<>>
                /\ pc' = "raised"
                /\ dpc' = "aborted"
                /\ failed' = failed \cup {rec_id}
                /\ UNCHANGED <<lol, prev, rttm, files, content, rng, idx, done, seen>>
    /\ UNCHANGED <<full_csv, n_lambdas, all_rec_ids, calls>>

\* 386-404: sys_output.rttm is opened for writing (created or emptied), then
\* every *.rttm file glob finds in the directory, except sys_output.rttm, is
\* copied into it.  glob returns the files in no particular order.
RECURSIVE Concatenate(_, _)
Concatenate(order, cont) ==
    IF order = <<>> THEN <<>>
    ELSE cont[Head(order)] \o Concatenate(Tail(order), cont)

Orders(S) ==
    {q \in [1..Cardinality(S) -> S] : \A i, j \in 1..Cardinality(S) : i # j => q[i] # q[j]}

Concat ==
    /\ dpc = "loop"
    /\ idx > Len(all_rec_ids)
    /\ \E order \in Orders(files \ {ConcatFile}) :
          content' = [content EXCEPT ![ConcatFile] = Concatenate(order, content)]
    /\ files' = files \cup {ConcatFile}
    /\ dpc' = "returned"
    /\ UNCHANGED <<callvars, full_csv, n_lambdas, all_rec_ids, idx, rng, calls,
                   done, failed, seen>>

Init ==
    /\ segset = <<>>
    /\ labels = <<>>
    /\ rec_arg = <<>>
    /\ lol = <<>>
    /\ prev = <<>>
    /\ rttm = <<>>
    /\ pc = "idle"
    /\ k = 0
    /\ DataInit

Next == Call \/ Diarize \/ Concat

Spec == Init /\ [][Next]_vars

SpecReconcile == InitValid /\ [][NextCall]_vars
SpecAnyInput == InitAny /\ [][NextCall]_vars


\* ======================================================================
\* Properties of the label-to-turn conversion
\* ======================================================================
NSeg == Len(segset)
InRec(i) == rsplit2(segset[i])[1]
InStart(i) == float(rsplit2(segset[i])[2])
InEnd(i) == float(rsplit2(segset[i])[3])
InSpk(i) == rec_arg \o <<str(labels[i])>>

\* The input of the claim's case: one recording, every start < end.
OneRecording == \A i, j \in 1..NSeg : InRec(i) = InRec(j)
InputValid == OneRecording /\ \A i \in 1..NSeg : InStart(i) < InEnd(i)

\* Half-second cells of the time axis; cell u is [u, u+1).
Cells == 0..(2 * MaxTime - 1)
CoveredByInput(u) == \E i \in 1..NSeg : InStart(i) <= u /\ u < InEnd(i)
CoveredByTurns(u) == \E i \in 1..Len(lol) : lol[i].start <= u /\ u < lol[i].end

\* C1: for valid input of one recording, the turns written are time-ordered,
\* every pair of distinct turns is non-overlapping, and every turn has
\* start < end.
C1_NonOverlap ==
    (pc = "done" /\ InputValid) =>
        /\ \A i \in 1..Len(lol) : lol[i].start < lol[i].end
        /\ \A i, j \in 1..Len(lol) :
              i < j => /\ lol[i].start <= lol[j].start
                       /\ (lol[i].end <= lol[j].start \/ lol[j].end <= lol[i].start)

\* C2: for valid input of one recording, the turns written cover exactly the
\* instants the input segments cover.
C2_Coverage ==
    (pc = "done" /\ InputValid) =>
        \A u \in Cells : CoveredByTurns(u) <=> CoveredByInput(u)

\* C5: Pass 2 keeps the turns, their order, speakers and outer boundaries;
\* every consecutive pair of different speakers that overlaps meets at the
\* midpoint of the old T2.start and T1.end; every other pair is untouched.
\* (spkrA, 0.0, 2.0), (spkrB, 1.0, 3.0) gives (spkrA, 0.0, 1.5), (spkrB, 1.5, 3.0).
Overlapping(l, i) == l[i].spk # l[i + 1].spk /\ l[i + 1].start < l[i].end
C5_Example ==
    /\ segset = <<SegId(RecOne, 0, 2), SegId(RecOne, 1, 3)>>
    /\ labels = <<0, 1>>
Rank(i) ==
    1 + Cardinality({j \in 1..NSeg :
                        \/ InStart(j) < InStart(i)
                        \/ InStart(j) = InStart(i) /\ j < i})
SortedInput ==
    [r \in 1..NSeg |->
        LET i == CHOOSE i \in 1..NSeg : Rank(i) = r
        IN [rec |-> InRec(i), start |-> InStart(i), end |-> InEnd(i),
            spk |-> InSpk(i)]]
SetMax(S) == CHOOSE x \in S : \A y \in S : y <= x
SetMin(S) == CHOOSE x \in S : \A y \in S : x <= y
\* B is the set of positions (in sorted order) where a new run begins.
RunStart(B, i) == SetMax({g \in B \cup {1} : g <= i})
RunEndBefore(S, B, i) == SetMax({S[j].end : j \in RunStart(B, i - 1)..(i - 1)})
RunsAreMaximal(S, B) ==
    \A i \in 2..Len(S) :
        (i \notin B) <=> /\ S[i].spk = S[i - 1].spk
                         /\ S[i].start <= RunEndBefore(S, B, i)
RunTurn(S, B, g) ==
    LET last == IF \E h \in B : h > g THEN SetMin({h \in B : h > g}) - 1 ELSE Len(S)
    IN [rec |-> S[g].rec,
        start |-> SetMin({S[j].start : j \in g..last}),
        end |-> SetMax({S[j].end : j \in g..last}),
        spk |-> S[g].spk]
C6_Example ==
    /\ segset = <<SegId(RecOne, 0, 1), SegId(RecOne, 1, 2), SegId(RecOne, 2, 3)>>
    /\ labels = <<0, 0, 1>>
C6_Merge ==
    (pc = "split" /\ InputValid) =>
        /\ LET S == SortedInput
           IN \E B \in SUBSET (2..NSeg) :
                 /\ RunsAreMaximal(S, B)
                 /\ Len(lol) = Cardinality(B) + 1
                 /\ \A g \in B \cup {1} :
                       lol[Cardinality({h \in B \cup {1} : h <= g})] = RunTurn(S, B, g)
        /\ C6_Example =>
              /\ Len(lol) = 2
              /\ <<lol[1].start, lol[1].end, lol[1].spk>> = <<0, 4, InSpk(1)>>
              /\ <<lol[2].start, lol[2].end, lol[2].spk>> = <<4, 6, InSpk(3)>>

\* C6 witness: a run whose later entry ends before an earlier one has been
\* merged into one turn that keeps the larger end.
C6_Witness ==
    /\ pc = "split"
    /\ Len(prev) = 2 /\ Len(lol) = 1
    /\ prev[2].end < prev[1].end
    /\ lol[1].end = prev[1].end

\* C7: a call whose entries name more than one recording, or hold an
\* interval with end <= start, writes no turns.
BadInput == ~OneRecording \/ \E i \in 1..NSeg : InEnd(i) <= InStart(i)
C7_Rejects == BadInput => (pc # "done" /\ rttm = <<>>)

\* C10: every entry built from segment i carries the rec_id argument as its
\* recording_id and the argument followed by "_" and label i as speaker_id.
C10_RecIdConsistent ==
    (pc = "sort" /\ OneRecording) =>
        \A i \in 1..NSeg :
            /\ lol[i].rec = rec_arg
            /\ lol[i].spk = rec_arg \o <<str(labels[i])>>

\* ======================================================================
\* Properties of diarize_dataset
\* ======================================================================
CallRecs == {all_rec_ids[i] : i \in 1..Len(all_rec_ids)}

\* C3: a recording diarized again with the same k (same seed, neighbours and
\* embeddings) gets the same turns, whatever was processed before it.
C3_Deterministic == \A key \in DOMAIN seen : Cardinality(seen[key]) <= 1

\* C4: a recording whose processing fails does not end the call: every other
\* recording of the split is written and the concatenation is reached.
C4_FailureIsolated ==
    /\ dpc # "aborted"
    /\ dpc = "returned" => \A r \in CallRecs : r \in done \cup failed

\* C8: clustering N segments with k = N succeeds with N labels in [0, k);
\* with k > N it fails.
C8_KBoundary ==
    (pc \in {"done", "raised"}) =>
        /\ k = Len(segset) =>
              /\ pc = "done"
              /\ Len(labels) = Len(segset)
              /\ \A i \in 1..Len(labels) : labels[i] \in 0..(k - 1)
        /\ k > Len(segset) => pc = "raised"

\* C9: when diarize_dataset returns, the concatenated file holds the files
\* of this call's recordings, once each, and nothing else: nothing of a
\* recording that is not in this call's list.  (The order is left open here.)
C9_OnlyThisCall ==
    dpc = "returned" =>
        \E order \in Orders(CallRecs) :
            content[ConcatFile] = Concatenate(order, content)

\* C9, with the order: the files follow each other in the order of the
\* call's recording list.
C9_InListOrder ==
    dpc = "returned" => content[ConcatFile] = Concatenate(all_rec_ids, content)

====
